---- MODULE Spec2Model ----
(***************************************************************************)
(* State-machine model of the health-ai agent (Wilsonide/health-ai).       *)
(*                                                                         *)
(*   main.py           the POST /message handler                           *)
(*   openai_client.py  _rate_guard, the per-user session map and           *)
(*                     get_gemini_reply                                    *)
(*   cache.py          the file-backed tip history                         *)
(*   scheduler.py      the daily job _scheduled_generate                   *)
(*   rpc.py            handle_rpc                                          *)
(*   utils.py          sanitize_text                                       *)
(*                                                                         *)
(* All coroutines run on one asyncio event loop: a coroutine runs without  *)
(* interleaving from one suspension to the next.  The variable cur names   *)
(* the coroutine that holds the loop; every other coroutine and the clock  *)
(* move only while cur = NoTask.                                           *)
(*                                                                         *)
(* Time is kept relative: the state holds how long ago a time stamp was    *)
(* taken and how long a timer has left, and Tick lets one second pass.     *)
(* _rate_guard only compares an age with MIN_OPENAI_CALL_INTERVAL, so ages *)
(* stop growing there.                                                     *)
(***************************************************************************)
EXTENDS Integers, Sequences, FiniteSets, TLC

(***************************************************************************)
(* Bounds of the model.                                                    *)
(***************************************************************************)
NumTasks == 2
MaxRequests == 3
MaxServed == 1
MaxDay == 2
MaxHistorySize == 3
MaxAppends == 5
MaxJobRuns == 2
MaxParts == 2
MaxTurns == 12
MaxLen == 3

(***************************************************************************)
(* Program constants.                                                      *)
(***************************************************************************)
MIN_OPENAI_CALL_INTERVAL == 3
HISTORY_SIZE == 7
SESSION_HISTORY_MAX == 10
SEND_TIMEOUT == 25

(***************************************************************************)
(* Sentinels (Python None, an unbound local, no coroutine).                *)
(***************************************************************************)
None == "None"
NoText == <<"<None>">>
NoData == <<[kind |-> "<None>", text |-> NoText]>>
NoResult == [kind |-> "None"]
NoError == [kind |-> "None"]
NoResponse == [status |-> 0]
Unbound == [kind |-> "unbound"]
NoRead == [tip |-> None, day |-> -1, n |-> -1]
NoExtraction == [raised |-> FALSE, text |-> <<"<None>">>]
NoTask == 0
NoTimer == -1

Tasks == 1..NumTasks
Days == 0..MaxDay
Users == {"u1", "u2"}

(***************************************************************************)
(* Tips passed to add_tip_to_history.  The function takes any str, the     *)
(* empty string included.                                                  *)
(***************************************************************************)
CacheTips == {"", "tipA", "tipB"}

VARIABLES
    today,          \* datetime.date.today(), as a day number
    historySize,    \* config.HISTORY_SIZE as read from the environment
    tipHistory,     \* the "history" list stored in the cache file
    appended,       \* ghost: every entry add_tip_to_history appended, in order
    cachedRead,     \* ghost: the latest get_cached_tip_for_today call
    cur,            \* the coroutine holding the event loop, or NoTask
    sinceLastCall,  \* time.time() - _last_call_ts, in seconds, capped at
                    \* MIN_OPENAI_CALL_INTERVAL (_rate_guard's delta)
    userSessions,   \* openai_client._user_sessions
    nextSession,    \* identity of the next chat session start_chat creates
    pc,             \* position of each /message request coroutine
    req,            \* the request body each coroutine is handling
    rpcRequest,     \* local rpc_request of message(): None while unbound
    userText,       \* local user_text of message()
    chatSession,    \* local chat_session of get_gemini_reply
    attempt,        \* loop variable attempt of get_gemini_reply
    timer,          \* seconds left of the pending asyncio.sleep or wait_for
    resp,           \* the response message() returned, None before
    nRequests,      \* number of requests received so far
    jobPc,          \* position of the _scheduled_generate coroutine
    nJobRuns,       \* number of times the daily job fired
    ghost,          \* history of the run the properties are stated over
    turns,          \* ghost: per user, every turn add_to_history appended
    exParts,        \* the parts sequence handed to the extraction loop
    exResult,       \* what the extraction loop made of exParts
    sanRaw,         \* the string handed to sanitize_text
    sanOut          \* the results of applying sanitize_text to it repeatedly

cacheVars == <<today, historySize, tipHistory, appended, cachedRead>>
clientVars == <<sinceLastCall, userSessions, nextSession>>
taskVars == <<pc, req, rpcRequest, userText, chatSession, attempt, timer, resp,
              nRequests>>
jobVars == <<jobPc, nJobRuns>>
pureVars == <<turns, exParts, exResult, sanRaw, sanOut>>
vars == <<cacheVars, cur, clientVars, taskVars, jobVars, ghost, pureVars>>

(***************************************************************************)
(* cache.py                                                                *)
(***************************************************************************)

\* Python's s[-n:] for a list s and an int n.
TailSlice(s, n) ==
    IF n = 0 THEN s
    ELSE IF n > 0
         THEN IF Len(s) <= n THEN s ELSE SubSeq(s, Len(s) - n + 1, Len(s))
         ELSE IF Len(s) <= -n THEN << >> ELSE SubSeq(s, 1 - n, Len(s))

\* get_history(): the list stored in the file.
get_history == tipHistory

\* get_cached_tip_for_today without the comparison of the date.
get_cached_tip_for_today_undated ==
    LET history == get_history IN
    IF history # << >> THEN history[Len(history)].tip ELSE None

\* get_cached_tip_for_today looking at history[0] instead of history[-1].
get_cached_tip_for_today_first ==
    LET history == get_history IN
    IF history # << >> /\ history[1].date = today
    THEN history[1].tip
    ELSE None

\* get_cached_tip_for_today(): the tip of the last entry if it is dated today.
get_cached_tip_for_today ==
    LET history == get_history IN
    IF history # << >> /\ history[Len(history)].date = today
    THEN history[Len(history)].tip
    ELSE None

\* add_tip_to_history without the slice that keeps the last N.
add_tip_to_history_untruncated(tip) ==
    Append(get_history, [date |-> today, tip |-> tip])

\* add_tip_to_history writing a list that holds the new entry alone.
add_tip_to_history_overwrite(tip) ==
    TailSlice(<<[date |-> today, tip |-> tip]>>, historySize)

\* add_tip_to_history(tip): the list written back to the file.
add_tip_to_history(tip) ==
    LET entry == [date |-> today, tip |-> tip]
        history == Append(get_history, entry)
    IN TailSlice(history, historySize)

(***************************************************************************)
(* Text.  A string is a sequence of tokens: "SP" is a run of whitespace,   *)
(* "TAG" an HTML tag, every other token a lower-cased word.  A substring   *)
(* test for a keyword is a test for its token.                             *)
(***************************************************************************)
IsSpace(tok) == tok = "SP"

RECURSIVE LStrip(_)
LStrip(s) == IF s # << >> /\ IsSpace(Head(s)) THEN LStrip(Tail(s)) ELSE s

RECURSIVE RStrip(_)
RStrip(s) ==
    IF s # << >> /\ IsSpace(s[Len(s)]) THEN RStrip(SubSeq(s, 1, Len(s) - 1))
    ELSE s

\* str.strip()
Strip(s) == RStrip(LStrip(s))

IsTag(tok) == tok = "TAG"
NotTag(tok) == ~IsTag(tok)

\* main.clean_text: re.sub(r"<.*?>", "", text or "").strip()
clean_text(text) ==
    IF text = NoText THEN << >> ELSE Strip(SelectSeq(text, NotTag))

\* The keywords that occur in the word tok: Python's "kw in text" is a
\* substring test, so "yoga" holds "yo" and "history" holds "hi".
KeywordsIn(tok) ==
    CASE tok = "yoga" -> {"yoga", "yo"}
      [] tok = "history" -> {"history", "hi"}
      [] tok = "this" -> {"hi"}
      [] tok = "blog" -> {"log"}
      [] OTHER -> {tok}

\* any(kw in text for kw in kws)
Contains(text, kws) ==
    \E i \in 1..Len(text) : KeywordsIn(text[i]) \cap kws # {}

HistoryKeywords == {"history", "log"}
Greetings == {"hi", "hello", "hey", "good morning", "good evening",
              "good afternoon", "yo", "sup", "what's up"}
HealthKeywords == {"health", "body", "fitness", "workout", "exercise", "diet",
                   "nutrition", "stretch", "sleep", "hydration", "wellness",
                   "training", "muscle", "posture", "yoga", "cardio",
                   "running", "strength", "mental health"}

(***************************************************************************)
(* Fixed texts of main.py and openai_client.py.                            *)
(***************************************************************************)
NO_HISTORY == <<"No fitness history found yet.">>
greeting_reply == <<"Hey there! I'm FitAI, your personal health and fitness buddy.">>
polite_refusal == <<"I'm FitAI - I only share tips and guidance about health.">>
fallback_slow == <<"Sorry, FitAI's connection is a bit slow right now.">>
fallback_error == <<"Oops! Something went wrong while fetching your health tip.">>
fallback_empty == <<"Hmm, I couldn't get a response just now.">>
model_text == <<"a reply of the model">>

(***************************************************************************)
(* schemas.py: the inbound envelope.                                       *)
(***************************************************************************)
TextPart(text) == [kind |-> "text", text |-> text, data |-> NoData]
DataPart(data) == [kind |-> "data", text |-> NoText, data |-> data]
FilePart == [kind |-> "file", text |-> NoText, data |-> NoData]
Item(kind, text) == [kind |-> kind, text |-> text]

\* RpcRequest(**data): jsonrpc, method and params must match the schema.
RpcRequestValid(data) ==
    /\ data.jsonrpc = "2.0"
    /\ data.id \in Users
    /\ data.method \in {"message/send", "execute"}
    /\ data.params.kind \in {"message", "execute"}

\* RpcResponse(jsonrpc="2.0", id=...): result and error keep their default.
EmptyResponse(id) ==
    [status |-> 200, id |-> id, result |-> NoResult, error |-> NoError]

\* RpcResponse(id=..., result=rpc_result) with a completed task around tip_text.
ResultResponse(id, tip_text, parts) ==
    [status |-> 200, id |-> id,
     result |-> [kind |-> "task",
                 status |-> [state |-> "completed", message |-> tip_text],
                 artifacts |-> <<tip_text>>,
                 history |-> parts],
     error |-> NoError]

(***************************************************************************)
(* main.message, lines 90-133: the extraction loop.                        *)
(***************************************************************************)
\* for item in reversed(data_items): the text of the last qualifying item.
RECURSIVE ScanItems(_, _)
ScanItems(items, j) ==
    IF j = 0 THEN << >>
    ELSE IF /\ items[j].kind = "text"
            /\ items[j].text # NoText
            /\ Strip(items[j].text) # << >>
         THEN clean_text(items[j].text)
         ELSE ScanItems(items, j - 1)

\* for part in reversed(parts): user_text, or raised when the loop raises.
RECURSIVE ScanParts(_, _)
ScanParts(parts, i) ==
    IF i = 0 THEN [raised |-> FALSE, text |-> << >>]
    ELSE LET part == parts[i] IN
         IF part.kind = "text"
         THEN IF part.text # NoText /\ Strip(part.text) # << >>
              THEN [raised |-> FALSE, text |-> clean_text(part.text)]
              ELSE ScanParts(parts, i - 1)
         ELSE IF part.kind = "data"
         THEN IF part.data = NoData
              THEN [raised |-> TRUE, text |-> << >>]
              ELSE LET found == ScanItems(part.data, Len(part.data)) IN
                   IF found # << >>
                   THEN [raised |-> FALSE, text |-> found]
                   ELSE ScanParts(parts, i - 1)
         ELSE ScanParts(parts, i - 1)

Extract(parts) == ScanParts(parts, Len(parts))

(***************************************************************************)
(* openai_client.py: the session map.                                      *)
(***************************************************************************)
\* A dict with key k set to value v.
DictSet(d, k, v) == [x \in DOMAIN d \cup {k} |-> IF x = k THEN v ELSE d[x]]

\* The reset emptying the whole map (dict.clear()).
DictPop_all(d, k) == [x \in {} |-> d[x]]

\* dict.pop(k, None)
DictPop(d, k) == [x \in DOMAIN d \ {k} |-> d[x]]

\* get_or_create_session(user_id) on the client state c = [S, n]:
\* S the session map, n the identity of the next session.
get_or_create_session(c, user_id) ==
    IF user_id \in DOMAIN c.S
    THEN [S |-> c.S, n |-> c.n, session |-> c.S[user_id].session]
    ELSE [S |-> DictSet(c.S, user_id, [history |-> << >>, session |-> c.n]),
          n |-> c.n + 1, session |-> c.n]

\* add_to_history without the slice that keeps the last 10.
add_to_history_untruncated(c, user_id, role, message) ==
    LET g == get_or_create_session(c, user_id)
        turn == [role |-> role, text |-> message]
    IN [S |-> DictSet(g.S, user_id,
                      [history |-> Append(g.S[user_id].history, turn),
                       session |-> g.S[user_id].session]),
        n |-> g.n]

\* add_to_history(user_id, role, message)
add_to_history(c, user_id, role, message) ==
    LET g == get_or_create_session(c, user_id)
        turn == [role |-> role, text |-> message]
        history == TailSlice(Append(g.S[user_id].history, turn),
                             SESSION_HISTORY_MAX)
    IN [S |-> DictSet(g.S, user_id, [history |-> history,
                                     session |-> g.S[user_id].session]),
        n |-> g.n]

(***************************************************************************)
(* openai_client._rate_guard, lines 21-24: how long the guard sleeps when  *)
(* delta = now - _last_call_ts; 0 when it does not sleep.                  *)
(***************************************************************************)
\* _rate_guard sleeping for delta instead of the remaining time.
rate_guard_delay_elapsed(delta) ==
    IF delta < MIN_OPENAI_CALL_INTERVAL THEN delta ELSE 0

rate_guard_delay(delta) ==
    IF delta < MIN_OPENAI_CALL_INTERVAL
    THEN MIN_OPENAI_CALL_INTERVAL - delta
    ELSE 0

(***************************************************************************)
(* get_gemini_reply, lines 68-118: the two gates before the model.         *)
(***************************************************************************)
\* The gates testing the health keywords before the greetings.
reply_gate_health_first(lower_msg) ==
    IF Contains(lower_msg, HealthKeywords) THEN "model"
    ELSE IF Contains(lower_msg, Greetings) THEN "greeting"
    ELSE "refusal"

reply_gate(lower_msg) ==
    IF Contains(lower_msg, Greetings) THEN "greeting"
    ELSE IF ~Contains(lower_msg, HealthKeywords) THEN "refusal"
    ELSE "model"

(***************************************************************************)
(* get_gemini_reply, lines 140-153: what a timeout of attempt does.        *)
(***************************************************************************)
\* get_gemini_reply letting the second TimeoutError propagate.
on_timeout_reraise(attempt_) ==
    IF attempt_ = 0 THEN "retry" ELSE "raise"

\* get_gemini_reply retrying after every timeout.
on_timeout_retry_always(attempt_) == "retry"

on_timeout(attempt_) ==
    IF attempt_ = 0 THEN "retry" ELSE "fallback"

(***************************************************************************)
(* Inbound requests.                                                       *)
(***************************************************************************)
Body(isJson, jsonrpc, id, method, params) ==
    [isJson |-> isJson, jsonrpc |-> jsonrpc, id |-> id, method |-> method,
     params |-> params]

MessageParams(parts) == [kind |-> "message", parts |-> parts]
ExecuteParams == [kind |-> "execute", parts |-> << >>]

Send(id, parts) == Body(TRUE, "2.0", id, "message/send", MessageParams(parts))

\* Bodies that never reach get_gemini_reply.
PlainBodies ==
    { Body(FALSE, "2.0", "u1", "message/send", MessageParams(<< >>)),
      Body(TRUE, "1.0", "u1", "message/send", MessageParams(<< >>)),
      Body(TRUE, "2.0", "u1", "get_daily_tip", MessageParams(<< >>)),
      Body(TRUE, "2.0", "u1", "execute", ExecuteParams),
      Body(TRUE, "2.0", "u1", "message/send", ExecuteParams),
      Send("u1", << >>),
      Send("u1", <<TextPart(<<"SP">>)>>),
      Send("u1", <<DataPart(NoData)>>),
      Send("u1", <<TextPart(<<"show", "SP", "history">>)>>) }

\* Bodies that do.
ChatBodies ==
    { Send("u1", <<TextPart(text)>>) :
        text \in { <<"hello">>, <<"refresh">>, <<"workout">>,
                   <<"refresh", "SP", "workout">> } }
    \cup { Send("u2", <<DataPart(<<Item("text", <<"TAG", "yoga">>)>>), FilePart>>) }

Bodies == PlainBodies \cup ChatBodies

(***************************************************************************)
(* Outcomes of chat_session.send_message within the timeout: a response    *)
(* with text, a response whose text is empty after sanitization, a         *)
(* provider error, and a response with no text whose first candidate holds *)
(* no parts (line 166 indexes parts[0]).                                   *)
(***************************************************************************)
ModelOutcomes == {"text", "empty", "error", "no_parts"}

(***************************************************************************)
(* Tips of generate_tip_from_openai (never empty).                         *)
(***************************************************************************)
GenTips == {"tipA", "tipB"}

Max(a, b) == IF a >= b THEN a ELSE b
Min(a, b) == IF a <= b THEN a ELSE b

\* An age one second later.
Older(age) == Min(age + 1, MIN_OPENAI_CALL_INTERVAL)

(***************************************************************************)
(* Initial state: the process has started, nothing was ever called.        *)
(* _last_call_ts = 0.0 lies decades before time.time().                    *)
(*                                                                         *)
(* ghost records what the properties speak about:                          *)
(*   extAge        seconds since the latest external model call started    *)
(*   extGap        the smallest distance between two successive external   *)
(*                 calls so far                                            *)
(*   wokeNow       the coroutines that left the sleep of the guard before  *)
(*                 the external call (line 132) within the current second  *)
(*   leftTogether  two coroutines slept in that guard and left it together *)
(*   doneExtAge    seconds since the latest external call of an invocation *)
(*                 that has returned                                       *)
(*   floorAge[t]   seconds since the latest external call of the           *)
(*                 invocations that had returned when t's began            *)
(*   gapToPrior[t] the smallest floorAge[t] at an external call of t       *)
(*   priorRecent[t] an invocation that had returned when t's began made    *)
(*                 its external call less than the interval before         *)
(*   myExtAge[t]   seconds since t's latest external call                  *)
(*   extCalls[t]   external calls of t's invocation                        *)
(*   timeouts[t]   timeouts of t's invocation                              *)
(*   genCalled[t]  t's request called get_gemini_reply                     *)
(*   outcome[t]    how t's latest external call ended, "none" before       *)
(*   cachedAtRecv[t], appendsAtRecv[t]  today's cached tip and the number  *)
(*                 of appends when t's request arrived                     *)
(*   jobBusyAtRecv[t]  the daily job had looked for today's tip and not    *)
(*                 yet appended its own when t's request arrived           *)
(* Ages are capped at MIN_OPENAI_CALL_INTERVAL, which also stands for      *)
(* "never".                                                                *)
(***************************************************************************)
InitGhost ==
    [extAge |-> MIN_OPENAI_CALL_INTERVAL,
     extGap |-> MIN_OPENAI_CALL_INTERVAL,
     wokeNow |-> {},
     leftTogether |-> FALSE,
     doneExtAge |-> MIN_OPENAI_CALL_INTERVAL,
     floorAge |-> [t \in Tasks |-> MIN_OPENAI_CALL_INTERVAL],
     gapToPrior |-> [t \in Tasks |-> MIN_OPENAI_CALL_INTERVAL],
     priorRecent |-> [t \in Tasks |-> FALSE],
     myExtAge |-> [t \in Tasks |-> MIN_OPENAI_CALL_INTERVAL],
     extCalls |-> [t \in Tasks |-> 0],
     timeouts |-> [t \in Tasks |-> 0],
     genCalled |-> [t \in Tasks |-> FALSE],
     outcome |-> [t \in Tasks |-> "none"],
     cachedAtRecv |-> [t \in Tasks |-> None],
     appendsAtRecv |-> [t \in Tasks |-> 0],
     jobBusyAtRecv |-> [t \in Tasks |-> FALSE]]

\* The part of ghost that belongs to coroutine t, as it is before a request.
ResetGhost(g, t) ==
    [g EXCEPT !.floorAge[t] = MIN_OPENAI_CALL_INTERVAL,
              !.gapToPrior[t] = MIN_OPENAI_CALL_INTERVAL,
              !.priorRecent[t] = FALSE,
              !.myExtAge[t] = MIN_OPENAI_CALL_INTERVAL,
              !.extCalls[t] = 0,
              !.timeouts[t] = 0,
              !.genCalled[t] = FALSE,
              !.outcome[t] = "none",
              !.cachedAtRecv[t] = None,
              !.appendsAtRecv[t] = 0,
              !.jobBusyAtRecv[t] = FALSE]

\* The invocation of get_gemini_reply by t returns.
GhostReturn(g, t) == [g EXCEPT !.doneExtAge = Min(@, g.myExtAge[t])]

InitCommon ==
    /\ today = 0
    /\ tipHistory = << >>
    /\ appended = << >>
    /\ cachedRead = NoRead
    /\ cur = NoTask
    /\ sinceLastCall = MIN_OPENAI_CALL_INTERVAL
    /\ userSessions = [u \in {} |-> 0]
    /\ nextSession = 1
    /\ pc = [t \in Tasks |-> "idle"]
    /\ req = [t \in Tasks |-> Unbound]
    /\ rpcRequest = [t \in Tasks |-> Unbound]
    /\ userText = [t \in Tasks |-> << >>]
    /\ chatSession = [t \in Tasks |-> 0]
    /\ attempt = [t \in Tasks |-> 0]
    /\ timer = [t \in Tasks |-> NoTimer]
    /\ resp = [t \in Tasks |-> NoResponse]
    /\ nRequests = 0
    /\ jobPc = "idle"
    /\ nJobRuns = 0
    /\ ghost = InitGhost

\* Nothing was handed to the functions that are looked at on their own.
InitPure ==
    /\ turns = [u \in Users |-> << >>]
    /\ exParts = << >>
    /\ exResult = NoExtraction
    /\ sanRaw = << >>
    /\ sanOut = << >>

Init ==
    /\ InitCommon
    /\ InitPure
    /\ historySize = HISTORY_SIZE

(***************************************************************************)
(* main.message                                                            *)
(***************************************************************************)
\* The join taking the entries newest first.
RECURSIVE JoinTips_reversed(_)
JoinTips_reversed(history) ==
    IF history = << >> THEN << >>
    ELSE IF Len(history) = 1 THEN <<history[1].tip>>
    ELSE <<history[Len(history)].tip, "\n">>
             \o JoinTips_reversed(SubSeq(history, 1, Len(history) - 1))

\* "\n".join(item.get("tip") for item in history)
RECURSIVE JoinTips(_)
JoinTips(history) ==
    IF history = << >> THEN << >>
    ELSE IF Len(history) = 1 THEN <<history[1].tip>>
    ELSE <<history[1].tip, "\n">> \o JoinTips(Tail(history))

\* Lines 218-223: the except branch reads rpc_request.id, which raises
\* UnboundLocalError when the failure came before rpc_request was bound.
HandlerExcept(rpc) ==
    IF rpc = Unbound
    THEN [pc |-> "raised", resp |-> NoResponse]
    ELSE [pc |-> "done", resp |-> EmptyResponse(rpc.id)]

\* Lines 166-216: the success envelope around tip_text.
HandlerResult(rpc, tip_text) ==
    [pc |-> "done",
     resp |-> ResultResponse(rpc.id, tip_text, rpc.params.parts)]

\* Lines 72-164 up to the call of get_gemini_reply: the coroutine's end
\* when it ends here, pc "guard1" when it goes on to get_gemini_reply.
HandlerPrefix(data) ==
    IF ~data.isJson \/ ~RpcRequestValid(data)
    THEN HandlerExcept(Unbound)
    ELSE IF data.method # "message/send"
    THEN [pc |-> "done", resp |-> EmptyResponse(data.id)]
    ELSE IF data.params.kind # "message"
    THEN HandlerExcept(data)
    ELSE LET ex == Extract(data.params.parts) IN
         IF ex.raised
         THEN HandlerExcept(data)
         ELSE IF ex.text = << >>
         THEN [pc |-> "done", resp |-> EmptyResponse(data.id)]
         ELSE IF Contains(ex.text, HistoryKeywords)
         THEN HandlerResult(data,
                  IF get_history = << >> THEN NO_HISTORY
                  ELSE JoinTips(get_history))
         ELSE [pc |-> "guard1", resp |-> NoResponse]

\* A request arrives and runs to its first suspension.  Coroutines have no
\* identity of their own: the request takes the first free one.
Receive(t, data) ==
    /\ UNCHANGED pureVars
    /\ cur = NoTask
    /\ pc[t] = "idle"
    /\ \A u \in Tasks : u < t => pc[u] # "idle"
    /\ nRequests < MaxRequests
    /\ LET bound == data.isJson /\ RpcRequestValid(data)
           isSend == bound /\ data.method = "message/send"
                           /\ data.params.kind = "message"
           ex == IF isSend THEN Extract(data.params.parts)
                 ELSE [raised |-> FALSE, text |-> << >>]
           out == HandlerPrefix(data)
       IN /\ req' = [req EXCEPT ![t] = data]
          /\ rpcRequest' = [rpcRequest EXCEPT ![t] = IF bound THEN data ELSE Unbound]
          /\ userText' = [userText EXCEPT ![t] = ex.text]
          /\ pc' = [pc EXCEPT ![t] = out.pc]
          /\ resp' = [resp EXCEPT ![t] = out.resp]
          /\ cur' = IF out.pc = "guard1" THEN t ELSE NoTask
          /\ ghost' = [ResetGhost(ghost, t) EXCEPT
                 !.floorAge[t] = ghost.doneExtAge,
                 !.priorRecent[t] = (ghost.doneExtAge < MIN_OPENAI_CALL_INTERVAL),
                 !.genCalled[t] = (out.pc = "guard1"),
                 !.cachedAtRecv[t] = get_cached_tip_for_today,
                 !.appendsAtRecv[t] = Len(appended),
                 !.jobBusyAtRecv[t] = (jobPc = "generating")]
    /\ nRequests' = nRequests + 1
    /\ UNCHANGED <<cacheVars, clientVars, chatSession, attempt, timer, jobVars>>

\* The caller has the response (or the server has the exception); the
\* coroutine is gone.
Close(t) ==
    /\ UNCHANGED pureVars
    /\ cur = NoTask
    /\ pc[t] \in {"done", "raised"}
    /\ pc' = [pc EXCEPT ![t] = "idle"]
    /\ req' = [req EXCEPT ![t] = Unbound]
    /\ rpcRequest' = [rpcRequest EXCEPT ![t] = Unbound]
    /\ userText' = [userText EXCEPT ![t] = << >>]
    /\ chatSession' = [chatSession EXCEPT ![t] = 0]
    /\ attempt' = [attempt EXCEPT ![t] = 0]
    /\ resp' = [resp EXCEPT ![t] = NoResponse]
    /\ ghost' = ResetGhost(ghost, t)
    /\ UNCHANGED <<cacheVars, cur, clientVars, timer, nRequests, jobVars>>

(***************************************************************************)
(* openai_client.get_gemini_reply                                          *)
(***************************************************************************)
client == [S |-> userSessions, n |-> nextSession]

\* get_gemini_reply returns reply to message(), which wraps it and returns.
ReturnReply(t, c, reply) ==
    LET out == HandlerResult(rpcRequest[t], reply) IN
    /\ userSessions' = c.S
    /\ nextSession' = c.n
    /\ pc' = [pc EXCEPT ![t] = out.pc]
    /\ resp' = [resp EXCEPT ![t] = out.resp]
    /\ cur' = NoTask

\* _rate_guard up to its sleep: lines 63 and 132 call it.
RateGuard(t) ==
    /\ UNCHANGED pureVars
    /\ cur = t
    /\ pc[t] \in {"guard1", "guard2"}
    /\ LET delay == rate_guard_delay(sinceLastCall) IN
       IF delay > 0
       THEN /\ timer' = [timer EXCEPT ![t] = delay]
            /\ pc' = [pc EXCEPT ![t] = IF pc[t] = "guard1" THEN "sleep1"
                                       ELSE "sleep2"]
            /\ cur' = NoTask
            /\ UNCHANGED sinceLastCall
       ELSE /\ sinceLastCall' = 0
            /\ pc' = [pc EXCEPT ![t] = IF pc[t] = "guard1" THEN "session"
                                       ELSE "send"]
            /\ UNCHANGED <<timer, cur>>
    /\ UNCHANGED <<cacheVars, userSessions, nextSession, req, rpcRequest,
                   userText, chatSession, attempt, resp, nRequests, jobVars,
                   ghost>>

\* asyncio.sleep is over: line 25 stamps the time and the guard returns.
Wake(t) ==
    /\ UNCHANGED pureVars
    /\ cur = NoTask
    /\ pc[t] \in {"sleep1", "sleep2"}
    /\ timer[t] = 0
    /\ sinceLastCall' = 0
    /\ pc' = [pc EXCEPT ![t] = IF pc[t] = "sleep1" THEN "session" ELSE "send"]
    /\ cur' = t
    /\ timer' = [timer EXCEPT ![t] = NoTimer]
    /\ ghost' = IF pc[t] = "sleep1" THEN ghost
                 ELSE [ghost EXCEPT
                          !.wokeNow = @ \cup {t},
                          !.leftTogether = @ \/ (ghost.wokeNow \ {t} # {})]
    /\ UNCHANGED <<cacheVars, userSessions, nextSession, req, rpcRequest,
                   userText, chatSession, attempt, resp, nRequests, jobVars>>

\* Lines 65-127: session, user turn, greeting and health-keyword gates.
Session(t) ==
    /\ UNCHANGED pureVars
    /\ cur = t
    /\ pc[t] = "session"
    /\ LET user_id == rpcRequest[t].id
           lower_msg == Strip(userText[t])
           g == get_or_create_session(client, user_id)
           c1 == add_to_history([S |-> g.S, n |-> g.n], user_id, "user",
                                userText[t])
       IN /\ chatSession' = [chatSession EXCEPT ![t] = g.session]
          /\ IF reply_gate(lower_msg) = "greeting"
             THEN /\ ReturnReply(t,
                        add_to_history(c1, user_id, "model", greeting_reply),
                        greeting_reply)
                  /\ ghost' = GhostReturn(ghost, t)
                  /\ UNCHANGED attempt
             ELSE IF reply_gate(lower_msg) = "refusal"
             THEN /\ ReturnReply(t,
                        add_to_history(c1, user_id, "model", polite_refusal),
                        polite_refusal)
                  /\ ghost' = GhostReturn(ghost, t)
                  /\ UNCHANGED attempt
             ELSE /\ userSessions' = c1.S
                  /\ nextSession' = c1.n
                  /\ attempt' = [attempt EXCEPT ![t] = 0]
                  /\ pc' = [pc EXCEPT ![t] = "guard2"]
                  /\ UNCHANGED <<resp, cur, ghost>>
    /\ UNCHANGED <<cacheVars, sinceLastCall, req, rpcRequest, userText, timer,
                   nRequests, jobVars>>

\* Lines 133-137: the external model call starts, bounded by the timeout.
SendMessage(t) ==
    /\ UNCHANGED pureVars
    /\ cur = t
    /\ pc[t] = "send"
    /\ pc' = [pc EXCEPT ![t] = "await_model"]
    /\ timer' = [timer EXCEPT ![t] = SEND_TIMEOUT]
    /\ cur' = NoTask
    /\ ghost' = [ghost EXCEPT
           !.extGap = Min(@, ghost.extAge),
           !.extAge = 0,
           !.gapToPrior[t] = Min(@, ghost.floorAge[t]),
           !.myExtAge[t] = 0,
           !.extCalls[t] = @ + 1]
    /\ UNCHANGED <<cacheVars, clientVars, req, rpcRequest, userText,
                   chatSession, attempt, resp, nRequests, jobVars>>

\* The model answers, or send_message raises, before the timeout:
\* lines 138-139 and 164-181, or lines 154-161.
ModelReturns(t, outcome) ==
    /\ UNCHANGED pureVars
    /\ cur = NoTask
    /\ pc[t] = "await_model"
    /\ LET user_id == rpcRequest[t].id
           reply == CASE outcome = "text" -> model_text
                      [] outcome = "empty" -> fallback_empty
                      [] outcome = "error" -> fallback_error
                      [] OTHER -> << >>
       IN IF outcome = "no_parts"
          THEN \* IndexError at line 166, outside the try: the except
               \* branch of message() answers
               LET out == HandlerExcept(rpcRequest[t]) IN
               /\ pc' = [pc EXCEPT ![t] = out.pc]
               /\ resp' = [resp EXCEPT ![t] = out.resp]
               /\ cur' = NoTask
               /\ UNCHANGED <<userSessions, nextSession>>
          ELSE ReturnReply(t, add_to_history(client, user_id, "model", reply),
                           reply)
    /\ timer' = [timer EXCEPT ![t] = NoTimer]
    /\ ghost' = [GhostReturn(ghost, t) EXCEPT !.outcome[t] = outcome]
    /\ UNCHANGED <<cacheVars, sinceLastCall, req, rpcRequest, userText,
                   chatSession, attempt, nRequests, jobVars>>

\* asyncio.wait_for times out: lines 140-153.
Timeout(t) ==
    /\ UNCHANGED pureVars
    /\ cur = NoTask
    /\ pc[t] = "await_model"
    /\ timer[t] = 0
    /\ LET user_id == rpcRequest[t].id
           what == on_timeout(attempt[t])
       IN CASE what = "retry" ->
                 LET g == get_or_create_session(
                              [S |-> DictPop(userSessions, user_id),
                               n |-> nextSession], user_id)
                 IN /\ userSessions' = g.S
                    /\ nextSession' = g.n
                    /\ chatSession' = [chatSession EXCEPT ![t] = g.session]
                    /\ attempt' = [attempt EXCEPT ![t] = 1]
                    /\ pc' = [pc EXCEPT ![t] = "guard2"]
                    /\ cur' = t
                    /\ ghost' = [ghost EXCEPT !.timeouts[t] = @ + 1]
                    /\ UNCHANGED resp
            [] what = "fallback" ->
                 /\ ReturnReply(t, add_to_history(client, user_id, "model",
                                                  fallback_slow),
                                fallback_slow)
                 /\ ghost' = [GhostReturn(ghost, t) EXCEPT !.timeouts[t] = @ + 1]
                 /\ UNCHANGED <<chatSession, attempt>>
            [] OTHER ->
                 \* the TimeoutError leaves get_gemini_reply: the except
                 \* branch of message() answers
                 LET out == HandlerExcept(rpcRequest[t]) IN
                 /\ pc' = [pc EXCEPT ![t] = out.pc]
                 /\ resp' = [resp EXCEPT ![t] = out.resp]
                 /\ cur' = NoTask
                 /\ ghost' = [GhostReturn(ghost, t) EXCEPT !.timeouts[t] = @ + 1]
                 /\ UNCHANGED <<userSessions, nextSession, chatSession, attempt>>
    /\ timer' = [timer EXCEPT ![t] = NoTimer]
    /\ UNCHANGED <<cacheVars, sinceLastCall, req, rpcRequest, userText,
                   nRequests, jobVars>>

(***************************************************************************)
(* scheduler._scheduled_generate                                           *)
(***************************************************************************)
\* The value generate_tip_from_openai hands back: the tip it generated.
generate_tip_from_openai(tip) == tip

\* Lines 14-21: the cron trigger fires; the job looks for today's tip.
JobStart ==
    /\ UNCHANGED pureVars
    /\ cur = NoTask
    /\ jobPc = "idle"
    /\ nJobRuns < MaxJobRuns
    /\ nJobRuns' = nJobRuns + 1
    /\ LET existing == get_cached_tip_for_today IN
       jobPc' = IF existing # None /\ existing # "" THEN "idle"
                ELSE "generating"
    /\ UNCHANGED <<cacheVars, cur, clientVars, taskVars, ghost>>

\* Lines 22-23: the tip arrives and is appended.
JobGenerated(tip) ==
    /\ UNCHANGED pureVars
    /\ cur = NoTask
    /\ jobPc = "generating"
    /\ tipHistory' = add_tip_to_history(generate_tip_from_openai(tip))
    /\ appended' = Append(appended, [date |-> today, tip |-> tip])
    /\ jobPc' = "idle"
    /\ UNCHANGED <<today, historySize, cachedRead, cur, clientVars, taskVars,
                   nJobRuns, ghost>>

\* Lines 29-30: generation raised; the job logs and ends.
JobFails ==
    /\ UNCHANGED pureVars
    /\ cur = NoTask
    /\ jobPc = "generating"
    /\ jobPc' = "idle"
    /\ UNCHANGED <<cacheVars, cur, clientVars, taskVars, nJobRuns, ghost>>

(***************************************************************************)
(* Time.                                                                   *)
(***************************************************************************)
\* One second passes while the event loop is idle.  The idle loop resumes a
\* coroutine whose asyncio.sleep or wait_for timeout is due within the second.
Tick ==
    /\ UNCHANGED pureVars
    /\ cur = NoTask
    /\ \A u \in Tasks : timer[u] # 0
    /\ sinceLastCall' = Older(sinceLastCall)
    /\ timer' = [t \in Tasks |-> IF timer[t] > 0 THEN timer[t] - 1 ELSE timer[t]]
    /\ ghost' = [ghost EXCEPT
           !.extAge = Older(@),
           !.doneExtAge = Older(@),
           !.wokeNow = {},
           !.floorAge = [t \in Tasks |-> Older(ghost.floorAge[t])],
           !.myExtAge = [t \in Tasks |-> Older(ghost.myExtAge[t])]]
    /\ UNCHANGED <<cacheVars, cur, userSessions, nextSession, pc, req,
                   rpcRequest, userText, chatSession, attempt, resp,
                   nRequests, jobVars>>

AdvanceDay ==
    /\ UNCHANGED pureVars
    /\ cur = NoTask
    /\ today < MaxDay
    /\ today' = today + 1
    /\ UNCHANGED <<historySize, tipHistory, appended, cachedRead, cur,
                   clientVars, taskVars, jobVars, ghost>>

\* The requests of Spec arrive one after the other: the one before is over.
Serve(t, data) ==
    /\ \A u \in Tasks : pc[u] = "idle"
    /\ nRequests < MaxServed
    /\ Receive(t, data)

(***************************************************************************)
(* The service: requests of every shape, handled one at a time, next to    *)
(* the daily job and the passing of days.                                  *)
(***************************************************************************)
Next ==
    \/ \E t \in Tasks, data \in Bodies : Serve(t, data)
    \/ \E t \in Tasks : RateGuard(t)
    \/ \E t \in Tasks : Wake(t)
    \/ \E t \in Tasks : Session(t)
    \/ \E t \in Tasks : SendMessage(t)
    \/ \E t \in Tasks, outcome \in ModelOutcomes : ModelReturns(t, outcome)
    \/ \E t \in Tasks : Timeout(t)
    \/ \E t \in Tasks : Close(t)
    \/ JobStart
    \/ \E tip \in GenTips : JobGenerated(tip)
    \/ JobFails
    \/ Tick
    \/ AdvanceDay

Spec == Init /\ [][Next]_vars

(***************************************************************************)
(* rpc.handle_rpc, the handler of the methods get_daily_tip, get_history   *)
(* and force_refresh.  No route of main.py registers it; it is modelled as *)
(* called on a request body.                                               *)
(***************************************************************************)
NoParams == [kind |-> "none", parts |-> << >>]

\* rpc_error(id_, code, message), lines 21-24
rpc_error(id_, code) ==
    [status |-> 200, id |-> id_, result |-> NoResult,
     error |-> [code |-> code]]

\* if req.params (line 43): a params object of either schema is truthy.
ParamsGiven(params) == params.kind \in {"message", "execute"}

\* Lines 28-46: the handler's end when it ends there, pc "methods" when it
\* goes on to the method branches of lines 48-75.
handle_rpc(data) ==
    IF ~data.isJson
    THEN [pc |-> "done", resp |-> rpc_error(None, -32700)]
    ELSE IF ~RpcRequestValid(data)
    THEN [pc |-> "done", resp |-> rpc_error(data.id, -32600)]
    ELSE IF ParamsGiven(data.params)
    THEN [pc |-> "done", resp |-> rpc_error(data.id, -32602)]
    ELSE [pc |-> "methods", resp |-> NoResponse]

\* Requests for the methods of handle_rpc, and one for message/send.
RpcBodies ==
    { Body(TRUE, "2.0", "u1", "get_daily_tip", NoParams),
      Body(TRUE, "2.0", "u1", "force_refresh", NoParams),
      Send("u1", <<TextPart(<<"workout">>)>>) }

\* handle_rpc runs on a request.  RpcResponse declares error as a dict and
\* rpc_error hands it an RpcError object (schemas.py, lines 79-92): built
\* tells whether the validation of the response accepts it; when it does
\* not, the exception leaves the handler.
RpcServe(t, data, built) ==
    /\ UNCHANGED pureVars
    /\ cur = NoTask
    /\ \A u \in Tasks : pc[u] = "idle"
    /\ \A u \in Tasks : u < t => pc[u] # "idle"
    /\ nRequests < MaxServed
    /\ LET out == handle_rpc(data) IN
       /\ req' = [req EXCEPT ![t] = data]
       /\ rpcRequest' = [rpcRequest EXCEPT ![t] =
                             IF data.isJson /\ RpcRequestValid(data) THEN data
                             ELSE Unbound]
       /\ pc' = [pc EXCEPT ![t] = IF built \/ out.pc # "done" THEN out.pc
                                  ELSE "raised"]
       /\ resp' = [resp EXCEPT ![t] = IF built THEN out.resp ELSE NoResponse]
    /\ ghost' = [ResetGhost(ghost, t) EXCEPT
           !.cachedAtRecv[t] = get_cached_tip_for_today,
           !.appendsAtRecv[t] = Len(appended),
           !.jobBusyAtRecv[t] = (jobPc = "generating")]
    /\ nRequests' = nRequests + 1
    /\ UNCHANGED <<cacheVars, cur, clientVars, userText, chatSession, attempt,
                   timer, jobVars>>

(***************************************************************************)
(* Requests for the daily tip, put to message() and to handle_rpc, next to *)
(* the daily job and the passing of days.                                  *)
(***************************************************************************)
TipBodies == { Send("u1", <<TextPart(<<"workout">>)>>) }

NextTips ==
    \/ \E t \in Tasks, data \in TipBodies : Serve(t, data)
    \/ \E t \in Tasks, data \in RpcBodies, built \in BOOLEAN :
          RpcServe(t, data, built)
    \/ \E t \in Tasks : RateGuard(t)
    \/ \E t \in Tasks : Wake(t)
    \/ \E t \in Tasks : Session(t)
    \/ \E t \in Tasks : SendMessage(t)
    \/ \E t \in Tasks, outcome \in ModelOutcomes : ModelReturns(t, outcome)
    \/ \E t \in Tasks : Timeout(t)
    \/ \E t \in Tasks : Close(t)
    \/ JobStart
    \/ \E tip \in GenTips : JobGenerated(tip)
    \/ JobFails
    \/ Tick
    \/ AdvanceDay

SpecTips == Init /\ [][NextTips]_vars

(***************************************************************************)
(* The cache API under arbitrary call sequences, for every configured      *)
(* HISTORY_SIZE.                                                           *)
(***************************************************************************)
InitCache ==
    /\ InitCommon
    /\ InitPure
    /\ historySize \in 0..MaxHistorySize

\* add_tip_to_history(tip)
AddTip(tip) ==
    /\ UNCHANGED pureVars
    /\ Len(appended) < MaxAppends
    /\ tipHistory' = add_tip_to_history(tip)
    /\ appended' = Append(appended, [date |-> today, tip |-> tip])
    /\ UNCHANGED <<today, historySize, cachedRead, cur, clientVars, taskVars,
                   jobVars, ghost>>

\* get_cached_tip_for_today()
ReadCached ==
    /\ UNCHANGED pureVars
    /\ cachedRead' = [tip |-> get_cached_tip_for_today, day |-> today,
                      n |-> Len(appended)]
    /\ UNCHANGED <<today, historySize, tipHistory, appended, cur, clientVars,
                   taskVars, jobVars, ghost>>

NextCache ==
    \/ \E tip \in CacheTips : AddTip(tip)
    \/ ReadCached
    \/ AdvanceDay

SpecCache == InitCache /\ [][NextCache]_vars

(***************************************************************************)
(* Concurrent get_gemini_reply calls of the same and of different users:   *)
(* requests that reach the rate guard and are answered by the model within *)
(* the timeout, without the daily job.                                     *)
(***************************************************************************)
RateBodies ==
    { Send("u1", <<TextPart(<<"workout">>)>>),
      Send("u2", <<TextPart(<<"workout">>)>>),
      Send("u1", <<TextPart(<<"hello">>)>>) }

NextRate ==
    \/ \E t \in Tasks, data \in RateBodies : Receive(t, data)
    \/ \E t \in Tasks : RateGuard(t)
    \/ \E t \in Tasks : Wake(t)
    \/ \E t \in Tasks : Session(t)
    \/ \E t \in Tasks : SendMessage(t)
    \/ \E t \in Tasks, outcome \in ModelOutcomes : ModelReturns(t, outcome)
    \/ \E t \in Tasks : Close(t)
    \/ Tick

SpecRate == Init /\ [][NextRate]_vars

(***************************************************************************)
(* get_gemini_reply calls issued one after the other (the next starts once *)
(* the one before has returned), timeouts and retries included.            *)
(***************************************************************************)
\* A request arrives once the one before is over.
ServeNext(t, data) ==
    /\ \A u \in Tasks : pc[u] = "idle"
    /\ Receive(t, data)

NextSeq ==
    \/ \E t \in Tasks, data \in RateBodies : ServeNext(t, data)
    \/ \E t \in Tasks : RateGuard(t)
    \/ \E t \in Tasks : Wake(t)
    \/ \E t \in Tasks : Session(t)
    \/ \E t \in Tasks : SendMessage(t)
    \/ \E t \in Tasks, outcome \in ModelOutcomes : ModelReturns(t, outcome)
    \/ \E t \in Tasks : Timeout(t)
    \/ \E t \in Tasks : Close(t)
    \/ Tick

SpecSeq == Init /\ [][NextSeq]_vars

(***************************************************************************)
(* Such calls on an event loop that keeps running: a coroutine that is     *)
(* ready to run is run, a timer that is due fires, and time passes.  The   *)
(* timeout of asyncio.wait_for (line 136) ends every external attempt that *)
(* has not responded or raised by then.                                    *)
(***************************************************************************)
LoopRuns ==
    /\ \A t \in Tasks : WF_vars(RateGuard(t))
    /\ \A t \in Tasks : WF_vars(Wake(t))
    /\ \A t \in Tasks : WF_vars(Session(t))
    /\ \A t \in Tasks : WF_vars(SendMessage(t))
    /\ \A t \in Tasks : WF_vars(Timeout(t))
    /\ WF_vars(Tick)

\* One user's requests: one that is answered by the greeting and one that
\* goes to the model.
ReplyBodies ==
    { Send("u1", <<TextPart(<<"hello">>)>>),
      Send("u1", <<TextPart(<<"workout">>)>>) }

NextReply ==
    \/ \E t \in Tasks, data \in ReplyBodies : ServeNext(t, data)
    \/ \E t \in Tasks : RateGuard(t)
    \/ \E t \in Tasks : Wake(t)
    \/ \E t \in Tasks : Session(t)
    \/ \E t \in Tasks : SendMessage(t)
    \/ \E t \in Tasks, outcome \in ModelOutcomes : ModelReturns(t, outcome)
    \/ \E t \in Tasks : Timeout(t)
    \/ \E t \in Tasks : Close(t)
    \/ Tick

SpecReplyFair == Init /\ [][NextReply]_vars /\ LoopRuns

(***************************************************************************)
(* The extraction loop of message() (lines 90-133) on its own, for every   *)
(* short parts sequence the schema accepts: MessagePart leaves text and    *)
(* data optional and puts no type on data's items.                         *)
(***************************************************************************)
PartShapes ==
    { TextPart(<<"workout">>), TextPart(<<"SP">>), TextPart(<<"TAG">>),
      TextPart(NoText), FilePart,
      DataPart(NoData), DataPart(<< >>),
      DataPart(<<Item("text", <<"yoga">>)>>),
      DataPart(<<Item("text", <<"TAG">>)>>),
      DataPart(<<Item("text", <<"hello">>), Item("file", NoText)>>) }

PartSeqs == UNION { [1..n -> PartShapes] : n \in 0..MaxParts }

InitExtract ==
    /\ InitCommon
    /\ historySize = HISTORY_SIZE
    /\ turns = [u \in Users |-> << >>]
    /\ exParts \in PartSeqs
    /\ exResult = NoExtraction
    /\ sanRaw = << >>
    /\ sanOut = << >>

\* The loop runs over exParts.
RunExtract ==
    /\ exResult = NoExtraction
    /\ exResult' = Extract(exParts)
    /\ UNCHANGED <<cacheVars, cur, clientVars, taskVars, jobVars, ghost, turns,
                   exParts, sanRaw, sanOut>>

NextExtract == RunExtract

SpecExtract == InitExtract /\ [][NextExtract]_vars

(***************************************************************************)
(* Requests that ask for the history, alone or next to the keywords of     *)
(* other intents, while the daily job fills the tip history over the days. *)
(***************************************************************************)
HistoryBodies ==
    { Send("u1", <<TextPart(text)>>) :
        text \in { <<"show", "SP", "history">>,
                   <<"refresh", "SP", "log">>,
                   <<"workout", "SP", "history">>,
                   <<"hello", "SP", "log">>,
                   <<"blog">> } }

NextHistory ==
    \/ \E t \in Tasks, data \in HistoryBodies : ServeNext(t, data)
    \/ \E t \in Tasks : Close(t)
    \/ JobStart
    \/ \E tip \in GenTips : JobGenerated(tip)
    \/ JobFails
    \/ AdvanceDay

SpecHistory == Init /\ [][NextHistory]_vars

(***************************************************************************)
(* One user's conversation, a request at a time: utterances with and       *)
(* without greeting and health keywords, timeouts and retries included.    *)
(***************************************************************************)
GateBodies ==
    { Send("u1", <<TextPart(text)>>) :
        text \in { <<"hello">>, <<"weather">>, <<"workout">>,
                   <<"hello", "SP", "workout">>, <<"yoga">>,
                   <<"this", "SP", "workout">> } }

NextGate ==
    \/ \E t \in Tasks, data \in GateBodies : ServeNext(t, data)
    \/ \E t \in Tasks : RateGuard(t)
    \/ \E t \in Tasks : Wake(t)
    \/ \E t \in Tasks : Session(t)
    \/ \E t \in Tasks : SendMessage(t)
    \/ \E t \in Tasks, outcome \in ModelOutcomes : ModelReturns(t, outcome)
    \/ \E t \in Tasks : Timeout(t)
    \/ \E t \in Tasks : Close(t)
    \/ Tick

SpecGate == Init /\ [][NextGate]_vars

(***************************************************************************)
(* add_to_history on its own: the turns of a conversation appended to the  *)
(* histories of the users, the k-th turn of a user carrying the text k.    *)
(***************************************************************************)
\* add_to_history(user_id, role, message) for the user's next turn.
AddTurn(user_id) ==
    /\ Len(turns[user_id]) < MaxTurns
    /\ LET k == Len(turns[user_id]) + 1
           role == IF k % 2 = 1 THEN "user" ELSE "model"
           message == <<ToString(k)>>
           c == add_to_history(client, user_id, role, message)
       IN /\ userSessions' = c.S
          /\ nextSession' = c.n
          /\ turns' = [turns EXCEPT ![user_id] =
                           Append(@, [role |-> role, text |-> message])]
    /\ UNCHANGED <<cacheVars, cur, sinceLastCall, taskVars, jobVars, ghost,
                   exParts, exResult, sanRaw, sanOut>>

NextSession == \E user_id \in Users : AddTurn(user_id)

SpecSession == Init /\ [][NextSession]_vars

(***************************************************************************)
(* utils.sanitize_text.  Its input is a sequence of the tokens             *)
(*   "w"      a word of ASCII letters                                      *)
(*   "SP"     a run of whitespace                                          *)
(*   "TAG"    an HTML tag, <b>                                             *)
(*   "ETAG"   an entity-encoded tag, &lt;b&gt;                             *)
(*   "EETAG"  a tag encoded twice, &amp;lt;b&amp;gt;                       *)
(*   "URL"    the start of a URL, http://x                                 *)
(*   "NA"     a run of non-ASCII characters that are not whitespace        *)
(***************************************************************************)
SanTokens == {"w", "SP", "TAG", "ETAG", "EETAG", "URL", "NA"}

\* html.unescape(raw), line 18: one level of entities is decoded.
UnescapeToken(tok) ==
    CASE tok = "EETAG" -> "ETAG"
      [] tok = "ETAG" -> "TAG"
      [] OTHER -> tok

Unescape(s) == [i \in 1..Len(s) |-> UnescapeToken(s[i])]

\* re.sub(r"<[^>]+>", "", text), line 20
StripTags(s) == SelectSeq(s, NotTag)

\* re.sub(r"http\S+", "", text), line 22: the match runs from the URL's
\* start over everything up to the next whitespace.
RECURSIVE StripUrls(_, _)
StripUrls(s, inUrl) ==
    IF s = << >> THEN << >>
    ELSE IF IsSpace(Head(s)) THEN <<Head(s)>> \o StripUrls(Tail(s), FALSE)
    ELSE IF inUrl \/ Head(s) = "URL" THEN StripUrls(Tail(s), TRUE)
    ELSE <<Head(s)>> \o StripUrls(Tail(s), FALSE)

\* re.sub(r"[^\x00-\x7F]+", "", text), line 24
IsAscii(tok) == tok # "NA"
StripNonAscii(s) == SelectSeq(s, IsAscii)

\* re.sub(r"\s+", " ", text).strip(), line 26
RECURSIVE CollapseSpace(_)
CollapseSpace(s) ==
    IF Len(s) < 2 THEN s
    ELSE IF IsSpace(s[1]) /\ IsSpace(s[2]) THEN CollapseSpace(Tail(s))
    ELSE <<s[1]>> \o CollapseSpace(Tail(s))

sanitize_text(raw) ==
    IF raw = NoText THEN << >>
    ELSE Strip(CollapseSpace(StripNonAscii(StripUrls(StripTags(Unescape(raw)),
                                                     FALSE))))

SanInputs == UNION { [1..n -> SanTokens] : n \in 0..MaxLen }

InitSanitize ==
    /\ InitCommon
    /\ historySize = HISTORY_SIZE
    /\ turns = [u \in Users |-> << >>]
    /\ exParts = << >>
    /\ exResult = NoExtraction
    /\ sanRaw \in SanInputs
    /\ sanOut = << >>

\* sanitize_text is applied to sanRaw, then to its own result.
ApplySanitize ==
    /\ Len(sanOut) < 2
    /\ sanOut' = Append(sanOut,
                        sanitize_text(IF sanOut = << >> THEN sanRaw
                                      ELSE sanOut[Len(sanOut)]))
    /\ UNCHANGED <<cacheVars, cur, clientVars, taskVars, jobVars, ghost, turns,
                   exParts, exResult, sanRaw>>

NextSanitize == ApplySanitize

SpecSanitize == InitSanitize /\ [][NextSanitize]_vars

(***************************************************************************)
(* Properties.                                                             *)
(***************************************************************************)
RefreshKeywords == {"refresh", "force", "new tip"}

\* The request of coroutine t is a message/send request the schema accepts
\* whose extraction ended without raising.
Extracted(t) ==
    /\ rpcRequest[t] # Unbound
    /\ rpcRequest[t].method = "message/send"
    /\ rpcRequest[t].params.kind = "message"
    /\ ~Extract(rpcRequest[t].params.parts).raised

\* The intent of the request of coroutine t, by the utterance's keywords.
Intent(t) ==
    IF userText[t] = << >> THEN "empty"
    ELSE IF Contains(userText[t], HistoryKeywords) THEN "history"
    ELSE IF Contains(userText[t], RefreshKeywords) THEN "refresh"
    ELSE "daily_tip"

\* The text of the response of coroutine t, << >> when it has no result.
ResponseText(t) ==
    IF resp[t] # NoResponse /\ resp[t].result # NoResult
    THEN resp[t].result.status.message
    ELSE << >>

\* s's last k elements.
LastN(s, k) == [i \in 1..k |-> s[Len(s) - k + i]]

\* C1: under any interleaving of concurrent get_gemini_reply calls, every two
\* successive external model calls start at least MIN_OPENAI_CALL_INTERVAL
\* apart, and no two requests that slept in the guard before the call
\* together leave it together.
C1_GlobalSpacing ==
    /\ ghost.extGap >= MIN_OPENAI_CALL_INTERVAL
    /\ ~ghost.leftTogether

\* C2: when a get_gemini_reply call starts after another one returned, each of
\* its external model calls starts no sooner than MIN_OPENAI_CALL_INTERVAL
\* after the external model calls of the one that returned.
C2_SequentialSpacing ==
    \A t \in Tasks : ghost.gapToPrior[t] >= MIN_OPENAI_CALL_INTERVAL

\* An invocation that began less than the interval after the external call
\* of a returned one has made its own external call.
C2_Witness ==
    \E t \in Tasks :
        /\ ghost.priorRecent[t]
        /\ ghost.extCalls[t] >= 1
        /\ pc[t] = "await_model"

\* C3: an invocation whose external call timed out on the first attempt and
\* on the retry returns the slow-connection fallback as a normal value, and
\* message() wraps it in a completed success envelope.
C3_DoubleTimeoutFallback ==
    \A t \in Tasks :
        ghost.timeouts[t] = 2 =>
            /\ pc[t] = "done"
            /\ resp[t].status = 200
            /\ resp[t].error = NoError
            /\ resp[t].result # NoResult
            /\ resp[t].result.status.state = "completed"
            /\ resp[t].result.status.message = fallback_slow

\* A request has been answered after two timeouts.
C3_Witness ==
    \E t \in Tasks :
        /\ ghost.timeouts[t] = 2
        /\ pc[t] = "done"
        /\ ghost.extCalls[t] = 2

\* C4: a default (daily-tip) request calls the generation client only when no
\* tip is cached for today; on a miss the generated tip is appended to the
\* tip history before the response, on a hit the cached tip is returned.
C4_DailyTipUsesCache ==
    \A t \in Tasks :
        (Extracted(t) /\ Intent(t) = "daily_tip") =>
            IF ghost.cachedAtRecv[t] # None
            THEN /\ ~ghost.genCalled[t]
                 /\ pc[t] = "done" => ResponseText(t) = <<ghost.cachedAtRecv[t]>>
            ELSE pc[t] = "done" =>
                    \E i \in (ghost.appendsAtRecv[t] + 1)..Len(appended) :
                        ResponseText(t) = <<appended[i].tip>>

\* C5: with a tip cached for today, a refresh request still makes a generation
\* call and appends a second entry for the day before it responds.
C5_RefreshBypassesCache ==
    \A t \in Tasks :
        (/\ Extracted(t)
         /\ Intent(t) = "refresh"
         /\ ghost.cachedAtRecv[t] # None
         /\ pc[t] = "done") =>
            /\ ghost.extCalls[t] >= 1
            /\ Len(appended) > ghost.appendsAtRecv[t]

\* C6: for every HISTORY_SIZE N >= 1 the stored history never holds more than
\* N entries, and after k appends it holds the min(k, N) most recently
\* appended entries in append order.
C6_HistoryBound ==
    historySize >= 1 =>
        /\ Len(tipHistory) <= historySize
        /\ tipHistory = LastN(appended, Min(Len(appended), historySize))

\* More tips were appended than the history may hold.
C6_Witness ==
    /\ historySize >= 1
    /\ Len(appended) > historySize
    /\ Len(tipHistory) = historySize
    /\ tipHistory[1] # appended[1]

\* C7: get_cached_tip_for_today called again with no append in between
\* returns the same tip within the same day and None once the day has
\* advanced.
C7_SameDayCache ==
    [][(cachedRead # NoRead /\ cachedRead'.n = cachedRead.n) =>
          /\ cachedRead'.day = cachedRead.day => cachedRead'.tip = cachedRead.tip
          /\ cachedRead'.day > cachedRead.day => cachedRead'.tip = None]_vars

\* A tip was read on the day it was appended; the next day's call, with no
\* new entry, found none.
C7_Witness ==
    /\ tipHistory # << >>
    /\ tipHistory[Len(tipHistory)].date < today
    /\ cachedRead.day = today
    /\ cachedRead.n = Len(appended)
    /\ cachedRead.tip = None

\* C8: with a non-decreasing calendar day, get_cached_tip_for_today returns a
\* tip exactly when the history holds an entry dated today, and then the tip
\* of the most recently appended entry dated today.
C8_CachedTipIsLatestToday ==
    LET dated == {i \in 1..Len(tipHistory) : tipHistory[i].date = today}
        latest == {i \in 1..Len(appended) :
                      /\ appended[i].date = today
                      /\ \A j \in 1..Len(appended) :
                            appended[j].date = today => j <= i}
    IN /\ (get_cached_tip_for_today # None) <=> (dated # {})
       /\ \A i \in latest :
             dated # {} => get_cached_tip_for_today = appended[i].tip

\* Two different tips are dated today, after one of an earlier day, and the
\* call returned the later one.
C8_Witness ==
    /\ Len(tipHistory) >= 3
    /\ tipHistory[1].date < today
    /\ tipHistory[Len(tipHistory) - 1].date = today
    /\ tipHistory[Len(tipHistory)].date = today
    /\ tipHistory[Len(tipHistory) - 1].tip # tipHistory[Len(tipHistory)].tip
    /\ cachedRead.day = today
    /\ cachedRead.n = Len(appended)
    /\ cachedRead.tip = tipHistory[Len(tipHistory)].tip

ClientErrorCodes == {-32700, -32600, -32601, -32602}

\* C9: a well-formed message/send request whose extracted utterance is empty
\* makes no generation call and is answered with an RPC Error of the
\* invalid-params family, never a server error, never a success result.
C9_EmptyUtteranceIsClientError ==
    \A t \in Tasks :
        (Extracted(t) /\ Intent(t) = "empty" /\ pc[t] # "idle") =>
            /\ ~ghost.genCalled[t]
            /\ pc[t] = "done"
            /\ resp[t].result = NoResult
            /\ resp[t].error # NoError
            /\ resp[t].error.code = -32602

\* C10: every inbound request ends with a response envelope, a malformed one
\* (not JSON, failing validation, unsupported method) with an RPC Error that
\* carries a client-error code; no exception escapes the handler.
C10_AlwaysAnswered ==
    \A t \in Tasks :
        /\ pc[t] # "raised"
        /\ (pc[t] = "done" /\ (~req[t].isJson \/ ~RpcRequestValid(req[t]))) =>
              /\ resp[t].error # NoError
              /\ resp[t].error.code \in ClientErrorCodes

\* C11: every response message() returns carries exactly one of a result and
\* an error: never both null, never both set.
C11_ExactlyOneOfResultAndError ==
    \A t \in Tasks :
        pc[t] = "done" =>
            (resp[t].result # NoResult) # (resp[t].error # NoError)

\* C12: whenever the inbound request carried an id, the handler ends with a
\* response whose outer id is that id, the failures that reach the except
\* branch included.
C12_IdEchoed ==
    \A t \in Tasks :
        (pc[t] \in {"done", "raised"} /\ req[t].isJson) =>
            /\ pc[t] = "done"
            /\ resp[t].id = req[t].id

\* A part the extraction rule accepts: a text part with non-empty trimmed
\* text, or a data part holding an item of kind "text" with non-empty trimmed
\* text.
QualifyingItems(part) ==
    IF part.kind = "data" /\ part.data # NoData
    THEN {j \in 1..Len(part.data) :
             /\ part.data[j].kind = "text"
             /\ part.data[j].text # NoText
             /\ Strip(part.data[j].text) # << >>}
    ELSE {}

Qualifies(part) ==
    \/ part.kind = "text" /\ part.text # NoText /\ Strip(part.text) # << >>
    \/ QualifyingItems(part) # {}

\* The greatest element of a non-empty set of numbers.
Last(S) == CHOOSE x \in S : \A y \in S : y <= x

\* The text of the last qualifying part (of its last qualifying item).
Candidate(parts) ==
    LET part == parts[Last({i \in 1..Len(parts) : Qualifies(parts[i])})] IN
    IF part.kind = "text" THEN part.text
    ELSE part.data[Last(QualifyingItems(part))].text

\* C13: the utterance is taken from the last qualifying part (for a data
\* part, from its last qualifying item), every earlier part is ignored, and
\* it is empty when no part qualifies.
C13_MostRecentWins ==
    (exResult # NoExtraction /\ ~exResult.raised) =>
        exResult.text =
            IF \E i \in 1..Len(exParts) : Qualifies(exParts[i])
            THEN clean_text(Candidate(exParts))
            ELSE << >>

\* C14: the extraction loop completes without raising on every parts
\* sequence the schema accepts.
C14_ExtractionNeverRaises ==
    exResult # NoExtraction => ~exResult.raised

\* The tips of h, one per line, in stored order.
TipLines(h) ==
    [i \in 1..(2 * Len(h) - 1) |->
        IF i % 2 = 1 THEN h[(i + 1) \div 2].tip ELSE "\n"]

\* The request of coroutine t asks for the history.
HistoryAsked(t) ==
    /\ Extracted(t)
    /\ Contains(userText[t], HistoryKeywords)

\* C15: a request whose utterance contains "history" or "log", whatever other
\* keyword it contains, is answered at once from the stored tip history, with
\* no generation call and the tip history unchanged: the fixed no-history
\* text when it is empty, else the stored tips one per line in stored order.
C15_HistoryFirst ==
    [][\A t \in Tasks :
          (pc[t] = "idle" /\ pc'[t] # "idle" /\ HistoryAsked(t)') =>
              /\ pc'[t] = "done"
              /\ ~ghost'.genCalled[t]
              /\ ghost'.extCalls[t] = 0
              /\ tipHistory' = tipHistory
              /\ appended' = appended
              /\ ResponseText(t)' = IF tipHistory = << >> THEN NO_HISTORY
                                    ELSE TipLines(tipHistory)]_vars

\* A request naming the history next to a refresh, health or greeting keyword
\* was answered with two different stored tips, oldest first.
C15_Witness ==
    \E t \in Tasks :
        /\ pc[t] = "done"
        /\ HistoryAsked(t)
        /\ Contains(userText[t],
                    RefreshKeywords \cup HealthKeywords \cup Greetings)
        /\ Len(tipHistory) = 2
        /\ tipHistory[1].tip # tipHistory[2].tip
        /\ ResponseText(t) = <<tipHistory[1].tip, "\n", tipHistory[2].tip>>

\* C16: get_gemini_reply calls the model only for an utterance with no
\* greeting keyword and at least one health keyword; an utterance with a
\* greeting keyword gets the greeting reply, and otherwise one with no health
\* keyword gets the polite refusal, both without an external call.
C16_GatesBeforeModel ==
    \A t \in Tasks :
        ghost.genCalled[t] =>
            LET lower_msg == Strip(userText[t])
                greets == Contains(lower_msg, Greetings)
                domain == Contains(lower_msg, HealthKeywords)
            IN /\ ghost.extCalls[t] >= 1 => (~greets /\ domain)
               /\ (greets /\ pc[t] = "done") =>
                     ResponseText(t) = greeting_reply
               /\ (~greets /\ ~domain /\ pc[t] = "done") =>
                     ResponseText(t) = polite_refusal

\* An utterance holding a greeting keyword and a health keyword was answered
\* with the greeting reply and no external call.
C16_Witness ==
    \E t \in Tasks :
        /\ ghost.genCalled[t]
        /\ pc[t] = "done"
        /\ Contains(Strip(userText[t]), Greetings)
        /\ Contains(Strip(userText[t]), HealthKeywords)
        /\ ghost.extCalls[t] = 0
        /\ ResponseText(t) = greeting_reply

\* C17: whenever get_gemini_reply(user, m) returns reply r, the user's session
\* history ends with the turn (user, m) followed by the turn (model, r), on
\* every return path.
C17_TurnsRecorded ==
    \A t \in Tasks :
        (ghost.genCalled[t] /\ pc[t] = "done" /\ resp[t].result # NoResult) =>
            LET user_id == rpcRequest[t].id IN
            /\ user_id \in DOMAIN userSessions
            /\ LET h == userSessions[user_id].history IN
               /\ Len(h) >= 2
               /\ h[Len(h) - 1] = [role |-> "user", text |-> userText[t]]
               /\ h[Len(h)] = [role |-> "model", text |-> ResponseText(t)]

\* C18: the session history of every user in the session map holds at most
\* 10 turns: the latest turns appended for the user, in order (when full,
\* each add_to_history drops the oldest turn).
C18_SessionHistoryBound ==
    \A user_id \in DOMAIN userSessions :
        LET h == userSessions[user_id].history IN
        /\ Len(h) <= 10
        /\ h = LastN(turns[user_id], Min(Len(turns[user_id]), 10))

\* More than 10 turns were appended for a user: the history is full and its
\* oldest turn is no longer the first one appended.
C18_Witness ==
    \E user_id \in DOMAIN userSessions :
        /\ Len(turns[user_id]) > 10
        /\ Len(userSessions[user_id].history) = 10
        /\ userSessions[user_id].history[1] # turns[user_id][1]
        /\ userSessions[user_id].history[10] = turns[user_id][Len(turns[user_id])]

\* C19: every generation failure of get_gemini_reply comes back as a fixed
\* fallback text in a normal return: a provider error on either attempt gives
\* the error fallback with no further attempt, model output with no text
\* gives the empty-output fallback, and no exception reaches message().
C19_FailuresDegradeToFallback ==
    \A t \in Tasks :
        (ghost.outcome[t] # "none" /\ pc[t] \in {"done", "raised"}) =>
            /\ pc[t] = "done"
            /\ resp[t].result # NoResult
            /\ ghost.outcome[t] = "error" =>
                  /\ ResponseText(t) = fallback_error
                  /\ ghost.extCalls[t] = ghost.timeouts[t] + 1
            /\ ghost.outcome[t] \in {"empty", "no_parts"} =>
                  ResponseText(t) = fallback_empty

\* C20: sanitize_text is idempotent: applied to its own result it returns
\* that result.
C20_SanitizeIdempotent ==
    Len(sanOut) = 2 => sanOut[2] = sanOut[1]

\* C21: every get_gemini_reply invocation comes to an end (it returns, or an
\* exception leaves it); it makes at most two external model calls, and each
\* call after the first follows a timeout of the call before.
C21_TerminatesWithinTwoCalls ==
    /\ [](\A t \in Tasks :
             /\ ghost.extCalls[t] <= 2
             /\ ghost.extCalls[t] <= ghost.timeouts[t] + 1)
    /\ \A t \in Tasks : ghost.genCalled[t] ~> (pc[t] \in {"done", "raised"})

\* An invocation has returned the model's reply from its second external
\* call, made after the first one timed out.
C21_Witness ==
    \E t \in Tasks :
        /\ pc[t] = "done"
        /\ ghost.extCalls[t] = 2
        /\ ghost.timeouts[t] = 1
        /\ ghost.outcome[t] = "text"
        /\ ResponseText(t) = model_text

\* C22: the reset after a first timeout replaces only the entry of the
\* invocation's user in the session map: the retry goes on with a session
\* other than the one that timed out, which is the user's new entry, every
\* other user's session and history stay as they were, and the user has an
\* entry whenever the invocation returns.
C22_ResetReplacesOnlyOwnEntry ==
    /\ [][\A t \in Tasks :
             (pc[t] = "await_model" /\ pc'[t] = "guard2") =>
                 LET user_id == rpcRequest[t].id IN
                 /\ chatSession'[t] # chatSession[t]
                 /\ user_id \in DOMAIN userSessions'
                 /\ userSessions'[user_id].session = chatSession'[t]
                 /\ DOMAIN userSessions' = DOMAIN userSessions \cup {user_id}
                 /\ \A u \in DOMAIN userSessions \ {user_id} :
                       userSessions'[u] = userSessions[u]]_vars
    /\ [](\A t \in Tasks :
             (ghost.genCalled[t] /\ pc[t] = "done"
                                 /\ resp[t].result # NoResult) =>
                 rpcRequest[t].id \in DOMAIN userSessions)

\* u1's invocation retries after a timeout with a new session while u2's
\* entry, made earlier, still holds its turns.
C22_Witness ==
    \E t \in Tasks :
        /\ pc[t] = "guard2"
        /\ ghost.timeouts[t] = 1
        /\ rpcRequest[t].id = "u1"
        /\ "u2" \in DOMAIN userSessions
        /\ Len(userSessions["u2"].history) = 2
        /\ userSessions["u1"].session = chatSession[t]
        /\ userSessions["u1"].session > userSessions["u2"].session

\* The invocation of coroutine t is answered by the greeting or the polite
\* refusal.
GatedReply(t) ==
    /\ ghost.genCalled[t]
    /\ reply_gate(Strip(userText[t])) # "model"

\* C23: an invocation answered by the greeting or the polite refusal is never
\* put to sleep by the rate guard, and none of its steps changes the time
\* stamp of the guard.
C23_GatedReplyLeavesGuardAlone ==
    [][\A t \in Tasks :
          (GatedReply(t) /\ pc[t] = "guard1" /\ pc'[t] # pc[t]) =>
              /\ pc'[t] # "sleep1"
              /\ sinceLastCall' = sinceLastCall]_vars

\* The request of coroutine t, which has ended, asked for the daily tip: an
\* utterance with no history or refresh keyword put to message(), or the
\* method get_daily_tip.
DailyTipAsked(t) ==
    /\ pc[t] \in {"done", "raised"}
    /\ \/ Extracted(t) /\ Intent(t) = "daily_tip"
       \/ req[t].isJson /\ req[t].method = "get_daily_tip"

\* C24: a daily-tip request that finds no tip cached for today while the
\* daily job has found none either and is still generating does generate and
\* append its own tip, which it answers with; the tip history never holds
\* more than HISTORY_SIZE entries.
C24_DuplicateRaceAbsorbed ==
    /\ Len(tipHistory) <= historySize
    /\ \A t \in Tasks :
          (/\ DailyTipAsked(t)
           /\ ghost.cachedAtRecv[t] = None
           /\ ghost.jobBusyAtRecv[t]) =>
              \E i \in (ghost.appendsAtRecv[t] + 1)..Len(appended) :
                  ResponseText(t) = <<appended[i].tip>>

\* C25: no append is lost, whatever coroutines are suspended around it: as
\* long as no more than HISTORY_SIZE appends have completed, the stored
\* history holds exactly the appended entries in the order the appends
\* completed.
C25_NoAppendLost ==
    Len(appended) <= historySize => tipHistory = appended

\* Two appends have completed while a request was waiting for the model, and
\* both entries are stored, the earlier one first.
C25_Witness ==
    /\ Len(appended) = 2
    /\ appended[1] # appended[2]
    /\ tipHistory = <<appended[1], appended[2]>>
    /\ \E t \in Tasks :
          /\ pc[t] = "await_model"
          /\ ghost.appendsAtRecv[t] = 0

====
